---- MODULE Spec2Model ----
(***************************************************************************)
(* Model of Backend/app.py: the five yfinance tools, the agent built over  *)
(* them with an in-memory checkpointer, and the /api/chat handler whose    *)
(* generate() forwards the agent stream to the client.                     *)
(*                                                                         *)
(* Optional Python values (None or a value) are sequences of length 0 or 1.*)
(* Prices are integers counted in cents.                                   *)
(***************************************************************************)
EXTENDS Integers, Sequences, FiniteSets, TLC

VARIABLES checkpoints, pc, thread, state, pending, results,
          produced, cur, out, err, escaped, callsLeft, tokensLeft, toolrun

vars == <<checkpoints, pc, thread, state, pending, results,
          produced, cur, out, err, escaped, callsLeft, tokensLeft, toolrun>>

agentVars == <<checkpoints, pc, thread, state, pending, results,
               produced, cur, out, err, escaped, callsLeft, tokensLeft>>

(***************************************************************************)
(* Bounds                                                                  *)
(***************************************************************************)
\* tool calls the model may request over one run, all requests together
MaxCallsTotal == 2
\* tool calls the model may put in one assistant message
MaxCallsPerMsg == 2
\* text tokens the model may stream over one run, all requests together
MaxTokensTotal == 1
\* news items the provider may return beyond the five that are shown
MaxExtraNews == 1

Threads == {"A", "B"}
Requests == {1, 2}
Tickers == {"acme", "ACME", "brk.b"}

None == <<>>
Some(v) == <<v>>

(***************************************************************************)
(* Python helpers                                                          *)
(***************************************************************************)
\* str.upper()
Upper(t) ==
    CASE t = "acme" -> "ACME"
      [] t = "ACME" -> "ACME"
      [] t = "brk.b" -> "BRK.B"
      [] OTHER -> t

\* truthiness of an optional number and of an optional string
TruthyNum(o) == o /= None /\ o[1] /= 0
TruthyStr(o) == o /= None /\ o[1] /= ""

\* a or b
OrNum(a, b) == IF TruthyNum(a) THEN a ELSE b
OrStr(a, b) == IF TruthyStr(a) THEN a ELSE b

Pad2(n) == IF n < 10 THEN "0" \o ToString(n) ELSE ToString(n)
Pad3(n) == IF n < 10 THEN "00" \o ToString(n)
           ELSE IF n < 100 THEN "0" \o ToString(n) ELSE ToString(n)

RECURSIVE Grouped(_)
Grouped(d) == IF d < 1000 THEN ToString(d)
              ELSE Grouped(d \div 1000) \o "," \o Pad3(d % 1000)

\* f"${price:,.2f}" of a price given in cents
FormatPrice(cents) == "$" \o Grouped(cents \div 100) \o "." \o Pad2(cents % 100)

\* what a tool call gives back: a value, or the exception it raised
Returned(kind, text) == [raised |-> FALSE, kind |-> kind, text |-> text]
Raised == [raised |-> TRUE, kind |-> "exception", text |-> ""]

(***************************************************************************)
(* The data provider, as the tools see it                                  *)
(***************************************************************************)
Prices == {12345, 123456789, 5}

\* stock.history(): raises, an empty frame, or rows whose last close is given
Histories == [kind : {"raises", "empty"}, close : {0}]
             \cup [kind : {"rows"}, close : Prices]

\* stock.fast_info: absent, an object that is no dict, a dict, or raising
OptPrices == {None, Some(0), Some(777)}
FastInfos == [kind : {"missing", "object", "raises"},
              last_price : {None}, last_close : {None}]
             \cup [kind : {"dict"}, last_price : OptPrices, last_close : OptPrices]

\* stock.info: a dict (None counts as {}), or raising
OptNames == {None, Some(""), Some("Acme Corp")}
Infos == [kind : {"raises"}, shortName : {None}, longName : {None}]
         \cup [kind : {"dict"}, shortName : OptNames, longName : {None, Some("Acme Corporation")}]

(***************************************************************************)
(* get_stock_price                                                         *)
(***************************************************************************)
\* lines 44-50: the last close of the history, None when empty or raising
PriceFromHistory(hist) ==
    IF hist.kind = "rows" THEN Some(hist.close) ELSE None


\* the fallback without the isinstance check: any fast_info object gives a price
PriceFromFastInfo_AnyObject(fast) ==
    IF fast.kind \in {"dict", "object"}
    THEN IF fast.kind = "dict" THEN OrNum(fast.last_price, fast.last_close) ELSE Some(777)
    ELSE None

\* lines 53-59: the fallback, taken only from a non-empty dict (a dict
\* holding neither key counts as empty here: it gives None either way)
PriceFromFastInfo(fast) ==
    IF fast.kind = "dict" /\ (fast.last_price /= None \/ fast.last_close /= None)
    THEN OrNum(fast.last_price, fast.last_close)
    ELSE None

\* lines 44-59
LatestPrice(hist, fast) ==
    IF PriceFromHistory(hist) /= None THEN PriceFromHistory(hist)
    ELSE PriceFromFastInfo(fast)

\* lines 62-67
CompanyName(info) ==
    IF info.kind = "dict" THEN OrStr(info.shortName, info.longName) ELSE None

get_stock_price(ticker, ctorOk, hist, fast, info) ==
    IF ~ctorOk THEN Raised
    ELSE LET price == LatestPrice(hist, fast)
             name == CompanyName(info)
             symbol == Upper(ticker)
         IN IF price = None
            THEN Returned("text", "No price data available for " \o symbol \o ".")
            ELSE IF TruthyStr(name)
            THEN Returned("text", "The current stock price of " \o name[1] \o " ("
                                  \o symbol \o ") is " \o FormatPrice(price[1]) \o ".")
            ELSE Returned("text", "The current stock price of " \o symbol \o " is "
                                  \o FormatPrice(price[1]) \o ".")

(***************************************************************************)
(* get_historical_stock_price, get_balance_sheet                           *)
(***************************************************************************)
get_historical_stock_price(ticker, ctorOk, hist) ==
    IF ~ctorOk \/ hist.kind = "raises" THEN Raised
    ELSE IF hist.kind = "empty" THEN Returned("dict", "{}")
    ELSE Returned("dict", "{Close: " \o ToString(hist.close) \o "}")

\* stock.balance_sheet: raises, or a frame (possibly empty)
Sheets == {"raises", "empty", "frame"}

get_balance_sheet(ticker, ctorOk, sheet) ==
    IF ~ctorOk \/ sheet = "raises" THEN Raised
    ELSE IF sheet = "empty" THEN Returned("frame", "Empty DataFrame")
    ELSE Returned("frame", "DataFrame")

(***************************************************************************)
(* get_stock_news                                                          *)
(***************************************************************************)
\* number of items shown (raw[:5])
MaxNewsShown == 5

\* one news entry after unnesting: each field absent or present; the provider
\* and the url may come as a dict holding the value
NewsItems == [title : {None, Some("Acme beats")},
              prov : {None, Some("Wire")}, provNested : BOOLEAN,
              time : {None, Some("2025-01-01")},
              url : {None, Some("http://n/1")}]

\* lines 112-150, one line of the summary (the dash before the url is
\* written "--")
NewsLine(it) ==
    LET title == IF TruthyStr(it.title) THEN it.title[1] ELSE "No title"
        provider == IF TruthyStr(it.prov) THEN it.prov[1] ELSE "Unknown source"
        time_str == IF TruthyStr(it.time) THEN "[" \o it.time[1] \o "] " ELSE ""
    IN IF TruthyStr(it.url)
       THEN "- " \o time_str \o title \o " (" \o provider \o ") -- " \o it.url[1]
       ELSE "- " \o time_str \o title \o " (" \o provider \o ")"

RECURSIVE JoinLines(_)
JoinLines(items) ==
    IF items = <<>> THEN ""
    ELSE "\n" \o NewsLine(Head(items)) \o JoinLines(Tail(items))

Take(s, n) == SubSeq(s, 1, IF Len(s) < n THEN Len(s) ELSE n)

\* stock.news: raises, None, or a list of items
get_stock_news(ticker, ctorOk, news) ==
    IF ~ctorOk \/ news.kind = "raises" THEN Raised
    ELSE IF news.kind = "none" \/ news.items = <<>>
    THEN Returned("text", "No recent news found for " \o Upper(ticker) \o ".")
    ELSE Returned("text", "Here are the latest updates for " \o Upper(ticker) \o ":"
                          \o JoinLines(Take(news.items, MaxNewsShown)))

(***************************************************************************)
(* render_stock_chart                                                      *)
(***************************************************************************)
render_stock_chart(ticker, ctorOk, hist, plotOk) ==
    IF ~ctorOk \/ hist.kind = "raises" THEN Raised
    ELSE IF hist.kind = "empty"
    THEN Returned("text", "No price data available for " \o ticker \o ".")
    ELSE IF ~plotOk THEN Raised
    ELSE Returned("image", "data:image/png;base64," \o "iVBOR" \o ToString(hist.close))

(***************************************************************************)
(* The tools run on their own, over every provider response                *)
(***************************************************************************)
NewsLists == [kind : {"raises", "none"}, items : {<<>>}]
             \cup [kind : {"list"}, items : {<<>>}]
             \cup {[kind |-> "list", items |-> <<it>>] : it \in NewsItems}
             \cup {[kind |-> "list", items |-> [i \in 1..(MaxNewsShown + k) |-> it]] :
                     it \in {x \in NewsItems : x.provNested}, k \in 1..MaxExtraNews}

NoHist == [kind |-> "empty", close |-> 0]
NoFast == [kind |-> "missing", last_price |-> None, last_close |-> None]
NoInfo == [kind |-> "dict", shortName |-> None, longName |-> None]
NoNews == [kind |-> "none", items |-> <<>>]

ToolRun(tool, ticker, ctorOk, hist, fast, info, sheet, news, plotOk, result) ==
    [tool |-> tool, ticker |-> ticker, ctorOk |-> ctorOk, hist |-> hist, fast |-> fast,
     info |-> info, sheet |-> sheet, news |-> news, plotOk |-> plotOk, result |-> result]

NoRun == ToolRun("none", "acme", TRUE, NoHist, NoFast, NoInfo, "empty", NoNews, TRUE,
                 Returned("none", ""))

Run_get_stock_price ==
    /\ toolrun = NoRun
    /\ \E t \in Tickers, ok \in BOOLEAN, h \in Histories, f \in FastInfos, i \in Infos :
          toolrun' = ToolRun("get_stock_price", t, ok, h, f, i, "empty", NoNews, TRUE,
                             get_stock_price(t, ok, h, f, i))
    /\ UNCHANGED agentVars

Run_get_historical_stock_price ==
    /\ toolrun = NoRun
    /\ \E t \in Tickers, ok \in BOOLEAN, h \in Histories :
          toolrun' = ToolRun("get_historical_stock_price", t, ok, h, NoFast, NoInfo, "empty",
                             NoNews, TRUE, get_historical_stock_price(t, ok, h))
    /\ UNCHANGED agentVars

Run_get_balance_sheet ==
    /\ toolrun = NoRun
    /\ \E t \in Tickers, ok \in BOOLEAN, s \in Sheets :
          toolrun' = ToolRun("get_balance_sheet", t, ok, NoHist, NoFast, NoInfo, s,
                             NoNews, TRUE, get_balance_sheet(t, ok, s))
    /\ UNCHANGED agentVars

Run_get_stock_news ==
    /\ toolrun = NoRun
    /\ \E t \in Tickers, ok \in BOOLEAN, n \in NewsLists :
          toolrun' = ToolRun("get_stock_news", t, ok, NoHist, NoFast, NoInfo, "empty",
                             n, TRUE, get_stock_news(t, ok, n))
    /\ UNCHANGED agentVars

Run_render_stock_chart ==
    /\ toolrun = NoRun
    /\ \E t \in Tickers, ok \in BOOLEAN, h \in Histories, p \in BOOLEAN :
          toolrun' = ToolRun("render_stock_chart", t, ok, h, NoFast, NoInfo, "empty",
                             NoNews, p, render_stock_chart(t, ok, h, p))
    /\ UNCHANGED agentVars

(***************************************************************************)
(* The agent: model, tools, checkpointer                                   *)
(*                                                                         *)
(* agent = create_agent(model, checkpointer, tools) is a graph of a model  *)
(* step and a tools step.  A run loads the thread's history, adds the      *)
(* input messages, and after each step stores the whole history it holds   *)
(* under the thread id.  The tools step runs the calls of the last         *)
(* assistant message in order; a tool that raises ends the run with that   *)
(* exception, and the results of the round are added only when every call  *)
(* has returned.  Streamed with stream_mode='messages', the run hands out  *)
(* the model's tokens and the message of each tool as it returns, and it   *)
(* advances only when the consumer asks for the next item.                 *)
(***************************************************************************)
ToolNames == {"get_stock_price", "get_historical_stock_price", "get_balance_sheet",
              "get_stock_news", "render_stock_chart"}

\* what the provider does while a tool of the agent runs
ProviderCases == {"data", "nodata", "down"}

CaseHist(c) == IF c = "data" THEN [kind |-> "rows", close |-> 12345]
               ELSE IF c = "nodata" THEN NoHist
               ELSE [kind |-> "raises", close |-> 0]
CaseFast(c) == IF c = "down"
               THEN [kind |-> "raises", last_price |-> None, last_close |-> None]
               ELSE [kind |-> "object", last_price |-> None, last_close |-> None]
CaseInfo(c) == IF c = "down"
               THEN [kind |-> "raises", shortName |-> None, longName |-> None]
               ELSE [kind |-> "dict", shortName |-> Some("Acme Corp"), longName |-> None]
CaseSheet(c) == IF c = "data" THEN "frame" ELSE IF c = "nodata" THEN "empty" ELSE "raises"
CaseNews(c) == IF c = "data"
               THEN [kind |-> "list",
                     items |-> <<[title |-> Some("Acme beats"), prov |-> Some("Wire"),
                                  provNested |-> TRUE, time |-> None, url |-> None]>>]
               ELSE IF c = "nodata" THEN [kind |-> "list", items |-> <<>>]
               ELSE [kind |-> "raises", items |-> <<>>]

\* the registered function behind a tool name, run against the provider
ExecuteTool(name, c) ==
    CASE name = "get_stock_price" ->
           get_stock_price("acme", TRUE, CaseHist(c), CaseFast(c), CaseInfo(c))
      [] name = "get_historical_stock_price" ->
           get_historical_stock_price("acme", TRUE, CaseHist(c))
      [] name = "get_balance_sheet" -> get_balance_sheet("acme", TRUE, CaseSheet(c))
      [] name = "get_stock_news" -> get_stock_news("acme", TRUE, CaseNews(c))
      [] name = "render_stock_chart" -> render_stock_chart("acme", TRUE, CaseHist(c), TRUE)

\* failures: the class, the code attribute (absent or a number), str(err)
ModelFailures ==
    {[cls |-> "ClientError", code |-> Some(429), msg |-> "RESOURCE_EXHAUSTED", src |-> "model"],
     [cls |-> "ClientError", code |-> None, msg |-> "Quota exceeded", src |-> "model"],
     [cls |-> "ClientError", code |-> Some(400), msg |-> "INVALID_ARGUMENT", src |-> "model"],
     [cls |-> "Exception", code |-> None, msg |-> "connection reset", src |-> "model"]}

ToolFailure(name) ==
    [cls |-> "Exception", code |-> None, msg |-> name \o " failed", src |-> "tool"]

\* 'quota' in str(err).lower()
MentionsQuota(msg) == msg \in {"Quota exceeded"}

Msg(role, r, calls, callId, content) ==
    [role |-> role, thread |-> thread[r], req |-> r, calls |-> calls,
     callId |-> callId, content |-> content]

SystemMessage(r) == Msg("system", r, <<>>, None, "You are a stock analysis assistant.")
HumanMessage(r) == Msg("user", r, <<>>, None, "prompt " \o ToString(r))
AIMessage(r, calls) == Msg("assistant", r, calls, None, IF calls = <<>> THEN "answer" ELSE "")

\* a tool message that carries the request's first call id whatever the call
ToolMessage_FirstId(r, call, content) == Msg("tool", r, <<>>, Some(<<r, 1>>), content)

ToolMessage(r, call, content) == Msg("tool", r, <<>>, Some(call.id), content)


\* every request filed under one thread id
ConfigThread_Shared(r) == "A"

\* config = {'configurable': {'thread_id': request.threadId}}
ConfigThread(r) == thread[r]

\* the checkpointer: absent keys read as an empty history
Load(t) == IF t \in DOMAIN checkpoints THEN checkpoints[t] ELSE <<>>
Put(t, msgs) == [x \in (DOMAIN checkpoints) \cup {t} |->
                   IF x = t THEN msgs ELSE checkpoints[x]]

\* tool calls request r has made so far in its run
CallsMade(r) == LET S == {i \in DOMAIN state[r] : state[r][i].req = r}
                    RECURSIVE Sum(_)
                    Sum(T) == IF T = {} THEN 0
                              ELSE LET i == CHOOSE x \in T : TRUE
                                   IN Len(state[r][i].calls) + Sum(T \ {i})
                IN Sum(S)

Fragment(src, content, seq) == [src |-> src, content |-> content, seq |-> seq]

(***************************************************************************)
(* generate(): the error handlers                                          *)
(***************************************************************************)

\* generate() without the fallback handler
Catches_ClientOnly(e) == e.cls = "ClientError"

\* the except clauses, in order: ClientError, then Exception
Catches(e) == e.cls \in {"ClientError", "Exception"}

IsQuota(e) == e.code = Some(429) \/ MentionsQuota(e.msg)


\* the quota test without the message check
Classify_CodeOnly(e) ==
    IF e.cls = "ClientError"
    THEN IF e.code = Some(429) THEN "quota" ELSE "client"
    ELSE "unexpected"

Classify(e) ==
    IF e.cls = "ClientError"
    THEN IF IsQuota(e) THEN "quota" ELSE "client"
    ELSE "unexpected"

AdvisoryText(e) ==
    CASE Classify(e) = "quota" ->
           "Model quota exhausted. Please retry shortly or upgrade your plan."
      [] Classify(e) = "client" -> "Upstream client error: " \o e.msg
      [] OTHER -> "Unexpected server error: " \o e.msg

\* an exception leaves agent.stream inside generate()
Raise(r, e) ==
    /\ err' = [err EXCEPT ![r] = Some(e)]
    /\ IF Catches(e)
       THEN /\ cur' = [cur EXCEPT ![r] = Some(Fragment("advisory", AdvisoryText(e), 0))]
            /\ pc' = [pc EXCEPT ![r] = "advise"]
            /\ UNCHANGED escaped
       ELSE /\ escaped' = [escaped EXCEPT ![r] = TRUE]
            /\ pc' = [pc EXCEPT ![r] = "closed"]
            /\ UNCHANGED cur


\* fragments handed over newest first
Send_Prepend(sent, frag) == <<frag>> \o sent

\* yield: the fragment goes to the client after those already sent
Send(sent, frag) == Append(sent, frag)


Reverse(q) == [i \in 1..Len(q) |-> q[Len(q) + 1 - i]]

\* results joined in the order the tools finished, last first
AppendResults_Reversed(msgs, res) == msgs \o Reverse(res)

\* the results of one round of tool calls join the thread
AppendResults(msgs, res) == msgs \o res

(***************************************************************************)
(* Actions                                                                 *)
(***************************************************************************)
Init ==
    /\ checkpoints = <<>>
    /\ pc = [r \in Requests |-> "idle"]
    /\ thread = [r \in Requests |-> "A"]
    /\ state = [r \in Requests |-> <<>>]
    /\ pending = [r \in Requests |-> <<>>]
    /\ results = [r \in Requests |-> <<>>]
    /\ produced = [r \in Requests |-> <<>>]
    /\ cur = [r \in Requests |-> None]
    /\ out = [r \in Requests |-> <<>>]
    /\ err = [r \in Requests |-> None]
    /\ escaped = [r \in Requests |-> FALSE]
    /\ callsLeft = MaxCallsTotal
    /\ tokensLeft = MaxTokensTotal
    /\ toolrun = NoRun

\* POST /api/chat: the handler builds the config and returns the response
Chat(r, t) ==
    /\ pc[r] = "idle"
    /\ thread' = [thread EXCEPT ![r] = t]
    /\ pc' = [pc EXCEPT ![r] = "start"]
    /\ UNCHANGED <<checkpoints, state, pending, results, produced, cur, out, err,
                   escaped, callsLeft, tokensLeft, toolrun>>

\* the first pull on generate(): agent.stream loads the thread and adds the input
StreamBegin(r) ==
    /\ pc[r] = "start"
    /\ LET msgs == Load(ConfigThread(r)) \o <<SystemMessage(r), HumanMessage(r)>>
       IN /\ state' = [state EXCEPT ![r] = msgs]
          /\ checkpoints' = Put(ConfigThread(r), msgs)
    /\ pc' = [pc EXCEPT ![r] = "model"]
    /\ UNCHANGED <<thread, pending, results, produced, cur, out, err, escaped,
                   callsLeft, tokensLeft, toolrun>>

\* the model streams one token of text; generate() holds it
ModelToken(r) ==
    /\ pc[r] = "model" /\ cur[r] = None
    /\ tokensLeft > 0
    /\ tokensLeft' = tokensLeft - 1
    /\ LET frag == Fragment("assistant", "text", Len(produced[r]) + 1)
       IN /\ produced' = [produced EXCEPT ![r] = Append(@, frag)]
          /\ cur' = [cur EXCEPT ![r] = Some(frag)]
    /\ UNCHANGED <<checkpoints, pc, thread, state, pending, results, out, err,
                   escaped, callsLeft, toolrun>>

\* the model call fails
ModelFail(r, e) ==
    /\ pc[r] = "model" /\ cur[r] = None
    /\ Raise(r, e)
    /\ UNCHANGED <<checkpoints, thread, state, pending, results, produced, out,
                   callsLeft, tokensLeft, toolrun>>

\* the model ends its message, requesting the tools named (none: the final answer)
ModelEnd(r, names) ==
    /\ pc[r] = "model" /\ cur[r] = None
    /\ Len(names) <= callsLeft
    /\ LET calls == [i \in 1..Len(names) |->
                       [id |-> <<r, CallsMade(r) + i>>, name |-> names[i]]]
           msgs == Append(state[r], AIMessage(r, calls))
       IN /\ state' = [state EXCEPT ![r] = msgs]
          /\ checkpoints' = Put(ConfigThread(r), msgs)
          /\ pending' = [pending EXCEPT ![r] = calls]
    /\ callsLeft' = callsLeft - Len(names)
    /\ pc' = [pc EXCEPT ![r] = IF names = <<>> THEN "closed" ELSE "tools"]
    /\ UNCHANGED <<thread, results, produced, cur, out, err, escaped, tokensLeft, toolrun>>

\* the next requested tool runs and returns; its message is streamed
ToolReturn(r, c) ==
    /\ pc[r] = "tools" /\ cur[r] = None /\ pending[r] /= <<>>
    /\ LET call == Head(pending[r])
           res == ExecuteTool(call.name, c)
           frag == Fragment("tool", res.text, Len(produced[r]) + 1)
       IN /\ ~res.raised
          /\ results' = [results EXCEPT ![r] = Append(@, ToolMessage(r, call, res.text))]
          /\ produced' = [produced EXCEPT ![r] = Append(@, frag)]
          /\ cur' = [cur EXCEPT ![r] = Some(frag)]
    /\ pending' = [pending EXCEPT ![r] = Tail(@)]
    /\ UNCHANGED <<checkpoints, pc, thread, state, out, err, escaped, callsLeft,
                   tokensLeft, toolrun>>

\* the next requested tool raises while it runs
ToolRaise(r, c) ==
    /\ pc[r] = "tools" /\ cur[r] = None /\ pending[r] /= <<>>
    /\ ExecuteTool(Head(pending[r]).name, c).raised
    /\ Raise(r, ToolFailure(Head(pending[r]).name))
    /\ UNCHANGED <<checkpoints, thread, state, pending, results, produced, out,
                   callsLeft, tokensLeft, toolrun>>

\* every requested tool has returned: the results join the thread, the model is next
ToolsCommit(r) ==
    /\ pc[r] = "tools" /\ cur[r] = None /\ pending[r] = <<>>
    /\ LET msgs == AppendResults(state[r], results[r])
       IN /\ state' = [state EXCEPT ![r] = msgs]
          /\ checkpoints' = Put(ConfigThread(r), msgs)
    /\ results' = [results EXCEPT ![r] = <<>>]
    /\ pc' = [pc EXCEPT ![r] = "model"]
    /\ UNCHANGED <<thread, pending, produced, cur, out, err, escaped, callsLeft,
                   tokensLeft, toolrun>>

\* yield token.content, or yield the advisory
Yield(r) ==
    /\ cur[r] /= None
    /\ out' = [out EXCEPT ![r] = Send(@, cur[r][1])]
    /\ cur' = [cur EXCEPT ![r] = None]
    /\ UNCHANGED <<checkpoints, pc, thread, state, pending, results, produced, err,
                   escaped, callsLeft, tokensLeft, toolrun>>

\* generate() returns after the advisory
Return(r) ==
    /\ pc[r] = "advise" /\ cur[r] = None
    /\ pc' = [pc EXCEPT ![r] = "closed"]
    /\ UNCHANGED <<checkpoints, thread, state, pending, results, produced, cur, out,
                   err, escaped, callsLeft, tokensLeft, toolrun>>

\* the lists of tool names one assistant message may request
CallLists(tools) == UNION {[1..n -> tools] : n \in 0..MaxCallsPerMsg}

\* the steps of the requests reqs, the model choosing among tools and failing
\* as in failures, the provider behaving as in cases
NextOver(reqs, tools, cases, failures) ==
    \/ \E r \in reqs, t \in Threads : Chat(r, t)
    \/ \E r \in reqs : StreamBegin(r)
    \/ \E r \in reqs : ModelToken(r)
    \/ \E r \in reqs, e \in failures : ModelFail(r, e)
    \/ \E r \in reqs, names \in CallLists(tools) : ModelEnd(r, names)
    \/ \E r \in reqs, c \in cases : ToolReturn(r, c)
    \/ \E r \in reqs, c \in cases : ToolRaise(r, c)
    \/ \E r \in reqs : ToolsCommit(r)
    \/ \E r \in reqs : Yield(r)
    \/ \E r \in reqs : Return(r)

\* two requests, on the same thread or on different threads
ThreadTools == {"get_stock_news"}
ThreadCases == {"data", "down"}
ThreadFailures == {e \in ModelFailures : e.code = Some(429)}

\* one request, every failure
TurnTools == ToolNames \ ThreadTools

Next == NextOver({1}, TurnTools, ProviderCases, ModelFailures)

Spec == Init /\ [][Next]_vars

NextThreads == NextOver(Requests, ThreadTools, ThreadCases, ThreadFailures)

SpecThreads == Init /\ [][NextThreads]_vars

NextTools ==
    \/ Run_get_stock_price
    \/ Run_get_historical_stock_price
    \/ Run_get_balance_sheet
    \/ Run_get_stock_news
    \/ Run_render_stock_chart

SpecTools == Init /\ [][NextTools]_vars

(***************************************************************************)
(* Properties                                                              *)
(***************************************************************************)
Range(q) == {q[i] : i \in DOMAIN q}
IsPrefix(a, b) == Len(a) <= Len(b) /\ SubSeq(b, 1, Len(a)) = a
Last(q) == q[Len(q)]
Advisories(o) == {i \in DOMAIN o : o[i].src = "advisory"}
Failed(r) == err[r] /= None
IsAdvisory(f) == f.src = "advisory" /\ f.seq = 0

\* C1: whatever failure leaves the agent stream, before or after fragments were
\* sent and also when a tool raised it, no exception leaves generate(), the
\* fragments already sent stay as they were, one advisory fragment follows
\* them, and the stream then closes.
C1_FailureEndsWithAdvisory ==
    \A r \in Requests :
       /\ ~escaped[r]
       /\ Failed(r) =>
            /\ pc[r] \in {"advise", "closed"}
            /\ (pc[r] = "advise" /\ cur[r] /= None) =>
                  /\ out[r] = produced[r]
                  /\ IsAdvisory(cur[r][1])
                  /\ ENABLED Yield(r)
            /\ (pc[r] = "advise" /\ cur[r] = None) => ENABLED Return(r)
            /\ (pc[r] = "closed" \/ cur[r] = None) =>
                  /\ Len(out[r]) = Len(produced[r]) + 1
                  /\ SubSeq(out[r], 1, Len(produced[r])) = produced[r]
                  /\ IsAdvisory(Last(out[r]))

\* C1 witness: a tool raised after fragments had been sent, and the stream closed
C1_Witness ==
    /\ Failed(1) /\ err[1][1].src = "tool"
    /\ pc[1] = "closed" /\ Len(out[1]) >= 2

\* C2: when the model call fails with quota exhaustion (code 429, or a message
\* that mentions the quota), the closed stream holds exactly one advisory
\* fragment, the last one, it says the quota is exhausted, and nothing escaped.
C2_QuotaAdvisory ==
    \A r \in Requests :
       (/\ Failed(r) /\ pc[r] = "closed"
        /\ err[r][1].src = "model"
        /\ (err[r][1].code = Some(429) \/ err[r][1].msg = "Quota exceeded"))
       => /\ ~escaped[r]
          /\ Advisories(out[r]) = {Len(out[r])}
          /\ Last(out[r]).content =
               "Model quota exhausted. Please retry shortly or upgrade your plan."

\* C2 witness: a quota failure without the 429 code, after a fragment was sent
C2_Witness ==
    /\ Failed(1) /\ pc[1] = "closed"
    /\ err[1][1].code = None /\ err[1][1].msg = "Quota exceeded"
    /\ Len(out[1]) = 2

\* C3 (as claimed): no failure raised by a tool reaches generate() as an exception.
C3_ToolFailureContained ==
    \A r \in Requests : Failed(r) => err[r][1].src /= "tool"

\* C4 (as claimed): no fragment sent to the client carries a tool message's content.
C4_NoToolFragment ==
    \A r \in Requests : \A i \in DOMAIN out[r] : out[r][i].src /= "tool"

\* C5: the fragments sent are those the agent stream produced, in the order
\* produced, none dropped, doubled or moved; at most the one just pulled is
\* not yet sent; the advisory of a failure comes after them all.
C5_SentInOrder ==
    \A r \in Requests :
       LET sent == SelectSeq(out[r], LAMBDA f : f.src /= "advisory")
           held == IF cur[r] /= None /\ cur[r][1].src /= "advisory" THEN 1 ELSE 0
       IN /\ IsPrefix(sent, produced[r])
          /\ Len(produced[r]) = Len(sent) + held
          /\ \A i \in DOMAIN produced[r] : produced[r][i].seq = i
          /\ Advisories(out[r]) \subseteq {Len(out[r])}

\* C5 witness: a text token and two tool results were produced and all three sent
C5_Witness ==
    /\ Len(out[1]) = 3 /\ out[1] = produced[1]
    /\ \E i, j \in DOMAIN out[1] : out[1][i].src = "assistant" /\ out[1][j].src = "tool"

\* C6: every message of a thread's history was appended under that thread, in
\* the store and in what a request loaded; a request whose thread no other
\* request has used starts from the empty history.
C6_ThreadIsolation ==
    /\ \A t \in DOMAIN checkpoints :
          \A i \in DOMAIN checkpoints[t] : checkpoints[t][i].thread = t
    /\ \A r \in Requests :
          /\ \A i \in DOMAIN state[r] : state[r][i].thread = thread[r]
          /\ (/\ pc[r] \notin {"idle", "start"}
              /\ \A q \in Requests \ {r} :
                    pc[q] \in {"idle", "start"} \/ thread[q] /= thread[r])
             => /\ \A i \in DOMAIN state[r] : state[r][i].req = r
                /\ state[r][1].role = "system"

\* C6 witness: two requests ran on different threads and both histories exist
C6_Witness ==
    /\ DOMAIN checkpoints = {"A", "B"}
    /\ \A r \in Requests : pc[r] = "closed"
    /\ thread[1] /= thread[2]
    /\ \E t \in Threads : \E i \in DOMAIN checkpoints[t] : checkpoints[t][i].role = "tool"

\* C7 (as claimed): no append is lost: every message a request appended is in
\* the stored history of its thread.
C7_NoLostAppend ==
    \A r \in Requests :
       \A i \in DOMAIN state[r] :
          state[r][i].req = r => state[r][i] \in Range(Load(thread[r]))

WellPaired(h) ==
    \A i \in DOMAIN h :
       h[i].role = "tool" =>
          \E j \in 1..(i - 1) :
             /\ h[j].role = "assistant"
             /\ \A k \in (j + 1)..(i - 1) : h[k].role = "tool"
             /\ \E c \in DOMAIN h[j].calls : Some(h[j].calls[c].id) = h[i].callId
             /\ \A k \in (j + 1)..(i - 1) : h[k].callId /= h[i].callId

\* C8: in every stored history and in every running request's history, each
\* tool message follows the assistant message that requested it with only
\* tool messages of the same round in between, and carries the id of one of
\* that message's calls, a different one for each result.
C8_ToolFollowsRequest ==
    /\ \A t \in DOMAIN checkpoints : WellPaired(checkpoints[t])
    /\ \A r \in Requests : WellPaired(state[r])

\* C8 witness: a stored history holds two turns, one with two calls answered
C8_Witness ==
    \E t \in DOMAIN checkpoints :
       LET h == checkpoints[t]
       IN /\ \E i, j \in DOMAIN h : h[i].req = 1 /\ h[j].req = 2
          /\ \E j \in DOMAIN h :
                /\ Len(h[j].calls) = 2 /\ j + 2 < Len(h)
                /\ h[j + 1].role = "tool" /\ h[j + 2].role = "tool"

\* C9: the results of the calls of one assistant message join the thread all
\* together and in the order of the calls, and the model is queried again
\* only once they are there.
C9_ResultsInCallOrder ==
    \A r \in Requests :
       \A j \in DOMAIN state[r] :
          LET m == state[r][j]
          IN (m.role = "assistant" /\ m.calls /= <<>>) =>
                \/ j = Len(state[r]) /\ pc[r] /= "model"
                \/ /\ j + Len(m.calls) <= Len(state[r])
                   /\ \A c \in DOMAIN m.calls :
                         /\ state[r][j + c].role = "tool"
                         /\ state[r][j + c].callId = Some(m.calls[c].id)

\* C9 witness: two different tools were requested together and the model is
\* queried again with both results in the thread
C9_Witness ==
    /\ pc[1] = "model"
    /\ \E j \in DOMAIN state[1] :
          /\ Len(state[1][j].calls) = 2
          /\ state[1][j].calls[1].name /= state[1][j].calls[2].name
          /\ Len(state[1]) = j + 2
          /\ state[1][j + 1].content /= state[1][j + 2].content

NoPriceText(symbol) == "No price data available for " \o symbol \o "."

ChartAndNewsEmpty ==
    /\ (/\ toolrun.tool = "render_stock_chart" /\ toolrun.ctorOk
        /\ toolrun.hist.kind = "empty")
       => /\ toolrun.result = Returned("text", NoPriceText(toolrun.ticker))
          /\ SubSeq(toolrun.result.text, 1, 5) /= "data:"
    /\ (/\ toolrun.tool = "get_stock_news" /\ toolrun.ctorOk
        /\ (toolrun.news.kind = "none"
            \/ (toolrun.news.kind = "list" /\ toolrun.news.items = <<>>)))
       => toolrun.result =
            Returned("text", "No recent news found for " \o Upper(toolrun.ticker) \o ".")

\* C10 (as claimed): whenever the history is empty or fetching it fails,
\* get_stock_price returns the no-data text; an empty history gives a no-data
\* text from render_stock_chart and no news gives the no-news text.
C10_NoHistoryNoPrice ==
    /\ (/\ toolrun.tool = "get_stock_price" /\ toolrun.ctorOk
        /\ toolrun.hist.kind \in {"empty", "raises"})
       => toolrun.result = Returned("text", NoPriceText(Upper(toolrun.ticker)))
    /\ ChartAndNewsEmpty

\* C10 (amended): get_stock_price returns the no-data text whenever the
\* history is empty or fails and the fast_info fallback gives no price either
\* (it is absent, no dict, fails, or holds no non-zero last_price and no
\* last_close); the chart and news parts as claimed.
C10_NoPriceAnywhere ==
    /\ (/\ toolrun.tool = "get_stock_price" /\ toolrun.ctorOk
        /\ toolrun.hist.kind \in {"empty", "raises"}
        /\ \/ toolrun.fast.kind /= "dict"
           \/ /\ toolrun.fast.last_price \in {None, Some(0)}
              /\ toolrun.fast.last_close = None)
       => toolrun.result = Returned("text", NoPriceText(Upper(toolrun.ticker)))
    /\ ChartAndNewsEmpty

\* C10 witness: history and fallback both fail and the no-data text comes back
C10_Witness ==
    /\ toolrun.tool = "get_stock_price"
    /\ toolrun.hist.kind = "raises" /\ toolrun.fast.kind = "raises"
    /\ toolrun.result.text = "No price data available for BRK.B."

====
